---- MODULE Spec2Model ----
(***************************************************************************)
(* Model of the derive(Error) code generator (impl/src/prop.rs and         *)
(* impl/src/expand.rs): the role resolver over a field list, the code      *)
(* emitted for a struct and for an enum, and what the emitted code         *)
(* computes when it is called.                                             *)
(***************************************************************************)
EXTENDS Integers, Sequences, FiniteSets, TLC

VARIABLES
    input,      \* the declarations derive is invoked on, in order
    roles,      \* the roles resolved for the field list of input[1]
    output,     \* the expansion of each declaration derive has run on
    self,       \* the value the generated methods are called on
    call,       \* the last call of generated code and its argument
    ret,        \* what that call returned
    captures    \* number of Backtrace::capture() calls so far

vars == <<input, roles, output, self, call, ret, captures>>

(***************************************************************************)
(* Bounds of the role-resolver specification.                              *)
(***************************************************************************)
MaxFields == 2

(***************************************************************************)
(* syn::Type, as far as prop.rs and expand.rs look into it: a path type    *)
(* with its segments' idents and the generic arguments of its last         *)
(* segment, or any other type (here a reference).                          *)
(***************************************************************************)
NoType == [kind |-> "None", segments |-> <<>>, arguments |-> <<>>]

TypeArg(ty) == [ga |-> "Type", ty |-> ty]

TyPath(segs, args) == [kind |-> "Path", segments |-> segs, arguments |-> args]

TyRef(ty) == [kind |-> "Reference", segments |-> <<>>, arguments |-> <<TypeArg(ty)>>]

TyIoError == TyPath(<<"io", "Error">>, <<>>)

TyBacktrace == TyPath(<<"Backtrace">>, <<>>)

TyStdBacktrace == TyPath(<<"std", "backtrace", "Backtrace">>, <<>>)

TyNamed(ident) == TyPath(<<ident>>, <<>>)

TyOption(ty) == TyPath(<<"Option">>, <<TypeArg(ty)>>)

TyBox(ty) == TyPath(<<"Box">>, <<TypeArg(ty)>>)

TyStdBox(ty) == TyPath(<<"std", "boxed", "Box">>, <<TypeArg(ty)>>)

(***************************************************************************)
(* ast::Field: member, type and the attributes the resolver reads.         *)
(***************************************************************************)
Named(ident) == [kind |-> "Named", ident |-> ident, index |-> 0]

Unnamed(index) == [kind |-> "Unnamed", ident |-> "", index |-> index]

Attrs(from, from_unwrap, source, backtrace) ==
    [from |-> from, from_unwrap |-> from_unwrap, source |-> source, backtrace |-> backtrace]

NoAttrs == Attrs(FALSE, FALSE, FALSE, FALSE)

Field(member, ty, attrs) == [member |-> member, ty |-> ty, attrs |-> attrs]

(***************************************************************************)
(* ast::Struct, ast::Variant and ast::Enum with the attributes expand.rs   *)
(* reads: transparent, display (a template is present) and unwrap.         *)
(***************************************************************************)
Struct(ident, transparent, display, fields) ==
    [kind |-> "Struct", ident |-> ident, transparent |-> transparent, display |-> display,
     unwrap |-> FALSE, fields |-> fields, variants |-> <<>>]

Variant(ident, transparent, display, fields) ==
    [ident |-> ident, transparent |-> transparent, display |-> display, fields |-> fields]

Enum(ident, unwrap, variants) ==
    [kind |-> "Enum", ident |-> ident, transparent |-> FALSE, display |-> FALSE,
     unwrap |-> unwrap, fields |-> <<>>, variants |-> variants]

(***************************************************************************)
(* prop.rs: type predicates.                                               *)
(***************************************************************************)
LastIdent(ty) == ty.segments[Len(ty.segments)]

type_is_backtrace(ty) ==
    IF ty.kind # "Path" THEN FALSE
    ELSE LastIdent(ty) = "Backtrace" /\ Len(ty.arguments) = 0

type_is_box(ty) ==
    IF ~(ty.kind = "Path" /\ Len(ty.segments) = 1) THEN NoType
    ELSE IF LastIdent(ty) = "Box" /\ Len(ty.arguments) > 0 /\ ty.arguments[1].ga = "Type"
         THEN ty.arguments[1].ty
         ELSE NoType

type_is_option(ty) ==
    IF ty.kind # "Path" THEN FALSE
    ELSE IF LastIdent(ty) # "Option" THEN FALSE
    ELSE Len(ty.arguments) = 1

(***************************************************************************)
(* prop.rs: the role resolver.  Each function scans the field list from    *)
(* the front and returns the first hit; a field is returned by reference,  *)
(* here its position in the list, 0 for None.                              *)
(***************************************************************************)
RECURSIVE ScanFrom(_, _)
ScanFrom(fields, i) ==
    IF i > Len(fields) THEN 0
    ELSE IF fields[i].attrs.from THEN i
    ELSE ScanFrom(fields, i + 1)

from_field(fields) == ScanFrom(fields, 1)

RECURSIVE ScanFromUnwrap(_, _)
ScanFromUnwrap(fields, i) ==
    IF i > Len(fields) THEN 0
    ELSE IF fields[i].attrs.from_unwrap THEN i
    ELSE ScanFromUnwrap(fields, i + 1)

from_unwrap_field(fields) == ScanFromUnwrap(fields, 1)

RECURSIVE ScanSourceAttr(_, _)
ScanSourceAttr(fields, i) ==
    IF i > Len(fields) THEN 0
    ELSE IF fields[i].attrs.from \/ fields[i].attrs.source THEN i
    ELSE ScanSourceAttr(fields, i + 1)

RECURSIVE ScanSourceName(_, _)
ScanSourceName(fields, i) ==
    IF i > Len(fields) THEN 0
    ELSE IF fields[i].member.kind = "Named" /\ fields[i].member.ident = "source" THEN i
    ELSE ScanSourceName(fields, i + 1)

source_field_name_first(fields) ==
    IF ScanSourceName(fields, 1) # 0 THEN ScanSourceName(fields, 1)
    ELSE ScanSourceAttr(fields, 1)

source_field(fields) ==
    IF ScanSourceAttr(fields, 1) # 0 THEN ScanSourceAttr(fields, 1)
    ELSE ScanSourceName(fields, 1)

RECURSIVE ScanBacktraceAttr(_, _)
ScanBacktraceAttr(fields, i) ==
    IF i > Len(fields) THEN 0
    ELSE IF fields[i].attrs.backtrace THEN i
    ELSE ScanBacktraceAttr(fields, i + 1)

RECURSIVE ScanBacktraceType(_, _)
ScanBacktraceType(fields, i) ==
    IF i > Len(fields) THEN 0
    ELSE IF type_is_backtrace(fields[i].ty) THEN i
    ELSE ScanBacktraceType(fields, i + 1)

backtrace_field_type_first(fields) ==
    IF ScanBacktraceType(fields, 1) # 0 THEN ScanBacktraceType(fields, 1)
    ELSE ScanBacktraceAttr(fields, 1)

backtrace_field(fields) ==
    IF ScanBacktraceAttr(fields, 1) # 0 THEN ScanBacktraceAttr(fields, 1)
    ELSE ScanBacktraceType(fields, 1)

is_boxed(fields) ==
    IF Len(fields) # 1 THEN NoType
    ELSE type_is_box(fields[1].ty)

(***************************************************************************)
(* The role-resolver specification: any field list the parser can hand     *)
(* over (no validation is assumed), resolved once.                         *)
(***************************************************************************)
NoRoles == [resolved |-> FALSE, from |-> 0, from_unwrap |-> 0, source |-> 0,
            backtrace |-> 0, boxed |-> NoType]

RoleMembers == {Named("source"), Named("cause"), Unnamed(0)}

RoleTypes == {TyIoError, TyBacktrace, TyStdBacktrace, TyOption(TyBacktrace),
              TyRef(TyBacktrace)}

RoleBoxTypes == {TyBox(TyIoError), TyStdBox(TyIoError)}

RoleAttrs == {NoAttrs, Attrs(TRUE, FALSE, FALSE, FALSE), Attrs(FALSE, TRUE, FALSE, FALSE),
              Attrs(FALSE, FALSE, TRUE, FALSE), Attrs(FALSE, FALSE, FALSE, TRUE)}

RoleBoxAttrs == {NoAttrs, Attrs(TRUE, FALSE, FALSE, FALSE), Attrs(FALSE, TRUE, FALSE, FALSE)}

RoleFields ==
    [member : RoleMembers, ty : RoleTypes, attrs : RoleAttrs]
        \cup [member : {Unnamed(0)}, ty : RoleBoxTypes, attrs : RoleBoxAttrs]

FieldLists(pool, n) == UNION {[1..k -> pool] : k \in 0..n}

Idle == [op |-> "idle"]

InitRoles ==
    /\ \E fields \in FieldLists(RoleFields, MaxFields) :
            input = <<Struct("S", FALSE, FALSE, fields)>>
    /\ roles = NoRoles
    /\ output = <<>>
    /\ self = Idle
    /\ call = Idle
    /\ ret = Idle
    /\ captures = 0

Resolve ==
    /\ ~roles.resolved
    /\ roles' = [resolved |-> TRUE,
                 from |-> from_field(input[1].fields),
                 from_unwrap |-> from_unwrap_field(input[1].fields),
                 source |-> source_field(input[1].fields),
                 backtrace |-> backtrace_field(input[1].fields),
                 boxed |-> is_boxed(input[1].fields)]
    /\ UNCHANGED <<input, output, self, call, ret, captures>>

NextRoles == Resolve

SpecRoles == InitRoles /\ [][NextRoles]_vars

(***************************************************************************)
(* Values at run time.  A value is raw, Some(raw) or None, and may sit in  *)
(* a Box.  `id` identifies the error or the backtrace; for an error, `bt`  *)
(* is the backtrace its own Error::backtrace() returns and `cause` the     *)
(* error its own Error::source() returns (0: none).  An expression rustc   *)
(* rejects evaluates to TypeError.                                         *)
(***************************************************************************)
Raw(tag, id, bt, cause) ==
    [opt |-> "raw", box |-> FALSE, tag |-> tag, id |-> id, bt |-> bt, cause |-> cause]

NoneVal == [opt |-> "none", box |-> FALSE, tag |-> "", id |-> 0, bt |-> 0, cause |-> 0]

TypeError == [opt |-> "error", box |-> FALSE, tag |-> "", id |-> 0, bt |-> 0, cause |-> 0]

SomeOf(v) == IF v.opt = "raw" THEN [v EXCEPT !.opt = "some"] ELSE TypeError

Unwrapped(v) == IF v.opt = "some" THEN [v EXCEPT !.opt = "raw"] ELSE TypeError

BoxNew(v) == IF v.box \/ v.opt # "raw" THEN TypeError ELSE [v EXCEPT !.box = TRUE]

\* x.as_dyn_error().backtrace(): the backtrace the error itself reports
dyn_backtrace(v) ==
    IF v.opt # "raw" THEN TypeError
    ELSE IF v.bt = 0 THEN NoneVal ELSE SomeOf(Raw("own_backtrace", v.bt, 0, 0))

\* Error::source(x.as_dyn_error()): the source the error itself reports
dyn_source(v) ==
    IF v.opt # "raw" THEN TypeError
    ELSE IF v.cause = 0 THEN NoneVal ELSE SomeOf(Raw("error", v.cause, 0, 0))

\* the n-th backtrace captured by Backtrace::capture()
Captured(n) == Raw("captured", n, 0, 0)

(***************************************************************************)
(* expand.rs, impl_struct: the four pieces emitted for a struct.  A piece  *)
(* that is not emitted has kind "none".                                    *)
(***************************************************************************)
NoMember == Unnamed(0)

NoSource == [kind |-> "none", member |-> NoMember, asref |-> FALSE]

NoBacktrace == [kind |-> "none", backtrace |-> NoMember, bt_option |-> FALSE,
                source |-> NoMember, source_option |-> FALSE]

NoDisplay == [kind |-> "none", member |-> NoMember, pat |-> <<>>]

NoInit == [from_member |-> NoMember, boxed |-> FALSE, capture |-> "none", backtrace_member |-> NoMember]

NoFrom == [kind |-> "none", from_ty |-> NoType, variant |-> "", init |-> NoInit,
           from_trait |-> "", rewrap_trait |-> "", rewraps |-> <<>>,
           identity |-> NoType]

\* expand.rs 20-46 with the first two branches in the other order
struct_source_method_field_first(decl) ==
    IF source_field(decl.fields) # 0
    THEN LET f == decl.fields[source_field(decl.fields)]
         IN  [kind |-> "field", member |-> f.member, asref |-> type_is_option(f.ty)]
    ELSE IF decl.transparent
         THEN [kind |-> "transparent", member |-> decl.fields[1].member, asref |-> FALSE]
         ELSE NoSource

\* expand.rs 20-46
struct_source_method(decl) ==
    IF decl.transparent
    THEN [kind |-> "transparent", member |-> decl.fields[1].member, asref |-> FALSE]
    ELSE IF source_field(decl.fields) # 0
         THEN LET f == decl.fields[source_field(decl.fields)]
              IN  [kind |-> "field", member |-> f.member, asref |-> type_is_option(f.ty)]
         ELSE NoSource

\* the arm both impl_struct (50-73) and impl_enum (196-225) emit when the
\* source's backtrace is preferred
prefer_source_ignored(bfield, sfield) ==
    [kind |-> "local", backtrace |-> bfield.member,
     bt_option |-> type_is_option(bfield.ty),
     source |-> sfield.member, source_option |-> type_is_option(sfield.ty)]

prefer_source(bfield, sfield) ==
    [kind |-> "prefer_source", backtrace |-> bfield.member,
     bt_option |-> type_is_option(bfield.ty),
     source |-> sfield.member, source_option |-> type_is_option(sfield.ty)]

\* the arm both emit when only the local field is returned (74-82, 227-237)
local_backtrace(bfield) ==
    [kind |-> "local", backtrace |-> bfield.member,
     bt_option |-> type_is_option(bfield.ty),
     source |-> NoMember, source_option |-> FALSE]

\* expand.rs 48-88
struct_backtrace_method(decl) ==
    IF backtrace_field(decl.fields) = 0 THEN NoBacktrace
    ELSE LET bf == decl.fields[backtrace_field(decl.fields)]
         IN  IF source_field(decl.fields) # 0
             THEN prefer_source(bf, decl.fields[source_field(decl.fields)])
             ELSE local_backtrace(bf)

\* expand.rs 411-424
fields_pat(fields) ==
    IF Len(fields) = 0 THEN [style |-> "braces", binds |-> <<>>]
    ELSE IF fields[1].member.kind = "Named"
         THEN [style |-> "braces", binds |-> [i \in 1..Len(fields) |-> fields[i].member]]
         ELSE [style |-> "parens", binds |-> [i \in 1..Len(fields) |-> fields[i].member]]

\* expand.rs 90-122
struct_display_impl(decl) ==
    IF decl.transparent
    THEN [kind |-> "transparent", member |-> decl.fields[1].member, pat |-> <<>>]
    ELSE IF decl.display
         THEN [kind |-> "template", member |-> NoMember, pat |-> fields_pat(decl.fields)]
         ELSE NoDisplay

\* expand.rs 426-457 with the Some(..) of line 436 left out
from_initializer_unwrapped(ffield, has_backtrace, bfield, boxed) ==
    [from_member |-> ffield.member,
     boxed |-> boxed,
     capture |-> IF ~has_backtrace THEN "none" ELSE "direct",
     backtrace_member |-> IF has_backtrace THEN bfield.member ELSE NoMember]

\* expand.rs 426-457
from_initializer(ffield, has_backtrace, bfield, boxed) ==
    [from_member |-> ffield.member,
     boxed |-> boxed,
     capture |-> IF ~has_backtrace THEN "none"
                 ELSE IF type_is_option(bfield.ty) THEN "some" ELSE "direct",
     backtrace_member |-> IF has_backtrace THEN bfield.member ELSE NoMember]

\* expand.rs 124-135
struct_from_impl(decl) ==
    IF from_field(decl.fields) = 0 THEN NoFrom
    ELSE LET ff == decl.fields[from_field(decl.fields)]
             bi == backtrace_field(decl.fields)
         IN  [kind |-> "from", from_ty |-> ff.ty, variant |-> "",
              init |-> from_initializer(ff, bi # 0, IF bi # 0 THEN decl.fields[bi] ELSE ff, FALSE),
              from_trait |-> "", rewrap_trait |-> "", rewraps |-> <<>>,
              identity |-> NoType]

\* expand.rs 16-145
impl_struct(decl) ==
    [kind |-> "Struct",
     source_method |-> struct_source_method(decl),
     backtrace_method |-> struct_backtrace_method(decl),
     display_impl |-> struct_display_impl(decl),
     from_impl |-> struct_from_impl(decl)]

(***************************************************************************)
(* prop.rs 18-47: what an enum has.                                        *)
(***************************************************************************)
has_source(decl) ==
    \E i \in 1..Len(decl.variants) :
        source_field(decl.variants[i].fields) # 0 \/ decl.variants[i].transparent

has_backtrace(decl) ==
    \E i \in 1..Len(decl.variants) : backtrace_field(decl.variants[i].fields) # 0

has_display(decl) ==
    \/ decl.display
    \/ decl.transparent
    \/ \E i \in 1..Len(decl.variants) : decl.variants[i].display
    \/ \A i \in 1..Len(decl.variants) : decl.variants[i].transparent

has_unwrap(decl) == decl.unwrap

(***************************************************************************)
(* expand.rs, impl_enum: one arm per variant for source, backtrace and     *)
(* display, the From impls and the promotion code.                         *)
(***************************************************************************)
Arm(ident, body) == [ident |-> ident, body |-> body]

\* expand.rs 152-176 without the branch of lines 160-170
enum_source_arm_transparent_only(variant) ==
    IF variant.transparent
    THEN [kind |-> "transparent", member |-> variant.fields[1].member, asref |-> FALSE]
    ELSE NoSource

\* expand.rs 152-176
enum_source_arm(variant) ==
    IF variant.transparent
    THEN [kind |-> "transparent", member |-> variant.fields[1].member, asref |-> FALSE]
    ELSE IF source_field(variant.fields) # 0
         THEN LET f == variant.fields[source_field(variant.fields)]
              IN  [kind |-> "field", member |-> f.member, asref |-> type_is_option(f.ty)]
         ELSE NoSource

\* expand.rs 190-242 with the guard of line 194 dropped
enum_backtrace_arm_unguarded(variant) ==
    IF backtrace_field(variant.fields) = 0 THEN NoBacktrace
    ELSE LET bf == variant.fields[backtrace_field(variant.fields)]
         IN  IF source_field(variant.fields) # 0
             THEN prefer_source(bf, variant.fields[source_field(variant.fields)])
             ELSE local_backtrace(bf)

\* expand.rs 190-242
enum_backtrace_arm(variant) ==
    IF backtrace_field(variant.fields) = 0 THEN NoBacktrace
    ELSE LET bf == variant.fields[backtrace_field(variant.fields)]
         IN  IF source_field(variant.fields) # 0 /\ ~bf.attrs.backtrace
             THEN prefer_source(bf, variant.fields[source_field(variant.fields)])
             ELSE local_backtrace(bf)

\* expand.rs 273-289
enum_display_arm(variant) ==
    IF variant.display
    THEN [kind |-> "template", member |-> NoMember, pat |-> fields_pat(variant.fields)]
    ELSE [kind |-> "only_field", member |-> variant.fields[1].member,
          pat |-> fields_pat(variant.fields)]

\* expand.rs 151-187
enum_source_method(decl) ==
    IF has_source(decl) THEN [present |-> TRUE, arms |-> [i \in 1..Len(decl.variants) |->
                        Arm(decl.variants[i].ident, enum_source_arm(decl.variants[i]))]]
    ELSE [present |-> FALSE, arms |-> <<>>]

\* expand.rs 189-252
enum_backtrace_method(decl) ==
    IF has_backtrace(decl) THEN [present |-> TRUE, arms |-> [i \in 1..Len(decl.variants) |->
                        Arm(decl.variants[i].ident, enum_backtrace_arm(decl.variants[i]))]]
    ELSE [present |-> FALSE, arms |-> <<>>]

\* expand.rs 254-303
enum_display_impl(decl) ==
    IF has_display(decl) THEN [present |-> TRUE, arms |-> [i \in 1..Len(decl.variants) |->
                        Arm(decl.variants[i].ident, enum_display_arm(decl.variants[i]))]]
    ELSE [present |-> FALSE, arms |-> <<>>]

\* expand.rs 323-329 without the test on the variant's own name
RECURSIVE other_variants_with_self(_, _, _)
other_variants_with_self(decl, variant, i) ==
    IF i > Len(decl.variants) THEN <<>>
    ELSE IF Len(decl.variants[i].fields) # 1
         THEN other_variants_with_self(decl, variant, i + 1)
         ELSE <<[variant |-> decl.variants[i].ident, ty |-> decl.variants[i].fields[1].ty]>>
              \o other_variants_with_self(decl, variant, i + 1)

\* expand.rs 323-329: the other variants with exactly one field
RECURSIVE other_variants(_, _, _)
other_variants(decl, variant, i) ==
    IF i > Len(decl.variants) THEN <<>>
    ELSE IF decl.variants[i].ident = variant \/ Len(decl.variants[i].fields) # 1
         THEN other_variants(decl, variant, i + 1)
         ELSE <<[variant |-> decl.variants[i].ident, ty |-> decl.variants[i].fields[1].ty]>>
              \o other_variants(decl, variant, i + 1)

\* expand.rs 306-359: what one variant contributes to from_impls
enum_from_impl(decl, variant) ==
    IF from_unwrap_field(variant.fields) = 0 /\ from_field(variant.fields) = 0 THEN NoFrom
    ELSE LET from_unwrap == from_unwrap_field(variant.fields) # 0
             ff == IF from_unwrap THEN variant.fields[from_unwrap_field(variant.fields)]
                   ELSE variant.fields[from_field(variant.fields)]
             bi == backtrace_field(variant.fields)
             boxed == is_boxed(variant.fields)
             from_ty == IF boxed # NoType THEN boxed ELSE ff.ty
         IN  IF from_unwrap
             THEN [kind |-> "unwrap", from_ty |-> from_ty, variant |-> variant.ident,
                   init |-> NoInit,
                   from_trait |-> "__From" \o variant.ident,
                   rewrap_trait |-> "__RewrapFor" \o variant.ident,
                   rewraps |-> other_variants(decl, variant.ident, 1),
                   identity |-> TyNamed(decl.ident)]
             ELSE [kind |-> "from", from_ty |-> from_ty, variant |-> variant.ident,
                   init |-> from_initializer(ff, bi # 0,
                                             IF bi # 0 THEN variant.fields[bi] ELSE ff,
                                             boxed # NoType),
                   from_trait |-> "", rewrap_trait |-> "", rewraps |-> <<>>,
                   identity |-> NoType]

\* expand.rs 305, 360: filter_map over the variants
RECURSIVE from_impls(_, _)
from_impls(decl, i) ==
    IF i > Len(decl.variants) THEN <<>>
    ELSE IF enum_from_impl(decl, decl.variants[i]).kind = "none" THEN from_impls(decl, i + 1)
    ELSE <<enum_from_impl(decl, decl.variants[i])>> \o from_impls(decl, i + 1)

\* expand.rs 362-398 emitted only for an enum that also has a from_unwrap variant
enum_unwrap_with_from_unwrap(decl) ==
    IF has_unwrap(decl) /\ \E i \in 1..Len(decl.variants) :
                              from_unwrap_field(decl.variants[i].fields) # 0
    THEN [present |-> TRUE,
          from_trait |-> "__From" \o decl.ident,
          rewrap_trait |-> "__RewrapFor" \o decl.ident,
          variants |-> [i \in 1..Len(decl.variants) |-> decl.variants[i].ident]]
    ELSE [present |-> FALSE, from_trait |-> "", rewrap_trait |-> "", variants |-> <<>>]

\* expand.rs 362-398
enum_unwrap(decl) ==
    IF has_unwrap(decl)
    THEN [present |-> TRUE,
          from_trait |-> "__From" \o decl.ident,
          rewrap_trait |-> "__RewrapFor" \o decl.ident,
          variants |-> [i \in 1..Len(decl.variants) |-> decl.variants[i].ident]]
    ELSE [present |-> FALSE, from_trait |-> "", rewrap_trait |-> "", variants |-> <<>>]

\* expand.rs 147-409
impl_enum(decl) ==
    [kind |-> "Enum",
     ty |-> decl.ident,
     source_method |-> enum_source_method(decl),
     backtrace_method |-> enum_backtrace_method(decl),
     display_impl |-> enum_display_impl(decl),
     from_impls |-> from_impls(decl, 1),
     unwrap |-> enum_unwrap(decl)]

\* expand.rs 7-14
derive(decl) == IF decl.kind = "Struct" THEN impl_struct(decl) ELSE impl_enum(decl)

(***************************************************************************)
(* What the emitted bodies compute on a value whose fields are `fs`, a     *)
(* function from members to values.                                        *)
(***************************************************************************)
\* expand.rs 22-35 (struct) and 156-169 (enum arm)
eval_source(body, fs) ==
    IF body.kind = "transparent" THEN dyn_source(fs[body.member])
    ELSE IF body.kind = "field"
         THEN IF body.asref
              THEN IF fs[body.member].opt = "none" THEN NoneVal
                   ELSE IF fs[body.member].opt = "some" THEN fs[body.member]
                   ELSE TypeError
              ELSE SomeOf(fs[body.member])
         ELSE NoneVal

\* expand.rs 52-60 / 198-206
eval_source_backtrace(body, fs) ==
    IF body.source_option
    THEN IF fs[body.source].opt = "none" THEN NoneVal
         ELSE dyn_backtrace(Unwrapped(fs[body.source]))
    ELSE dyn_backtrace(fs[body.source])

\* self.#backtrace.as_ref() and Some(&self.#backtrace)
eval_local_backtrace(body, fs) ==
    IF body.bt_option
    THEN IF fs[body.backtrace].opt = "raw" THEN TypeError ELSE fs[body.backtrace]
    ELSE SomeOf(fs[body.backtrace])

\* expand.rs 61-82 / 207-233
eval_backtrace(body, fs) ==
    IF body.kind = "prefer_source"
    THEN LET sb == eval_source_backtrace(body, fs)
         IN  IF sb.opt = "error" THEN TypeError
             ELSE IF sb.opt = "some" THEN sb
             ELSE eval_local_backtrace(body, fs)
    ELSE IF body.kind = "local" THEN eval_local_backtrace(body, fs)
    ELSE NoneVal

\* expand.rs 92-110: the sole field's own Display, or the template
\* evaluated over the bindings of the pattern
eval_display(body, fs) ==
    IF body.kind = "transparent"
    THEN [by |-> "field", shown |-> <<fs[body.member]>>]
    ELSE [by |-> "template", shown |-> [i \in 1..Len(body.pat.binds) |-> fs[body.pat.binds[i]]]]

\* expand.rs 453-456 with 436/440 and 446/450: the braces of the
\* constructor; n is the number of captures made before
eval_initializer(init, source, n) ==
    LET from_part == (init.from_member :> (IF init.boxed THEN BoxNew(source) ELSE source))
    IN  IF init.capture = "none" THEN from_part
        ELSE IF init.capture = "some"
             THEN from_part @@ (init.backtrace_member :> SomeOf(Captured(n + 1)))
             ELSE from_part @@ (init.backtrace_member :> Captured(n + 1))

(***************************************************************************)
(* Calling the emitted code.                                               *)
(***************************************************************************)
\* the match of a generated method: the first arm whose variant is the
\* value's (expand.rs 180-182, 245-247, 295-297)
RECURSIVE MatchArm(_, _, _)
MatchArm(arms, variant, i) ==
    IF arms[i].ident = variant THEN arms[i].body ELSE MatchArm(arms, variant, i + 1)

\* Error::source(): the emitted method, or the trait's default
call_source(out, v) ==
    IF out.kind = "Struct" THEN eval_source(out.source_method, v.fields)
    ELSE IF out.source_method.present
         THEN eval_source(MatchArm(out.source_method.arms, v.variant, 1), v.fields)
         ELSE NoneVal

\* Error::backtrace(): the emitted method, or the trait's default
call_backtrace(out, v) ==
    IF out.kind = "Struct" THEN eval_backtrace(out.backtrace_method, v.fields)
    ELSE IF out.backtrace_method.present
         THEN eval_backtrace(MatchArm(out.backtrace_method.arms, v.variant, 1), v.fields)
         ELSE NoneVal

has_display_impl(out) ==
    IF out.kind = "Struct" THEN out.display_impl.kind # "none" ELSE out.display_impl.present

call_display(out, v) ==
    IF out.kind = "Struct" THEN eval_display(out.display_impl, v.fields)
    ELSE eval_display(MatchArm(out.display_impl.arms, v.variant, 1), v.fields)

\* the plain From impls of an expansion (expand.rs 124-135, 350-358)
PlainFroms(out) ==
    IF out.kind = "Struct"
    THEN IF out.from_impl.kind = "from" THEN {out.from_impl} ELSE {}
    ELSE {out.from_impls[i] : i \in {j \in 1..Len(out.from_impls) : out.from_impls[j].kind = "from"}}

\* From::from(source): #ty #body or #ty::#variant #body
call_from(item, source, n) ==
    [variant |-> item.variant, fields |-> eval_initializer(item.init, source, n)]

(***************************************************************************)
(* The values of a type and of a declaration.                              *)
(***************************************************************************)
MaxErr == 2

MaxBt == 1

MaxCause == 1

RECURSIVE ValuesOfType(_)
ValuesOfType(ty) ==
    IF ty.segments = <<"Option">>
    THEN {NoneVal} \cup {SomeOf(v) : v \in ValuesOfType(ty.arguments[1].ty)}
    ELSE IF ty.segments = <<"Box">>
    THEN {BoxNew(v) : v \in ValuesOfType(ty.arguments[1].ty)}
    ELSE IF ty \in {TyBacktrace, TyStdBacktrace}
    THEN {Raw("field_backtrace", k, 0, 0) : k \in 1..MaxBt}
    ELSE {Raw("error", id, bt, cause) : id \in 1..MaxErr, bt \in 0..MaxBt, cause \in 0..MaxCause}

RECURSIVE FieldValues(_, _)
FieldValues(fields, i) ==
    IF i > Len(fields) THEN {<<>>}
    ELSE {(fields[i].member :> v) @@ rest :
              v \in ValuesOfType(fields[i].ty), rest \in FieldValues(fields, i + 1)}

ValuesOf(decl) ==
    IF decl.kind = "Struct"
    THEN {[variant |-> "", fields |-> fs] : fs \in FieldValues(decl.fields, 1)}
    ELSE UNION {{[variant |-> decl.variants[i].ident, fields |-> fs] :
                     fs \in FieldValues(decl.variants[i].fields, 1)} :
                i \in 1..Len(decl.variants)}

(***************************************************************************)
(* The declarations of the specification: field lists with at most one     *)
(* error field and at most one backtrace field, as a struct or as the      *)
(* variants of an enum.                                                    *)
(***************************************************************************)
ErrorTypes == {TyIoError, TyOption(TyIoError), TyBox(TyIoError)}

ErrorRoles == {"from", "source", "named", "plain"}

BacktraceFieldTypes == {TyBacktrace, TyOption(TyBacktrace)}

ErrorField(ty, role, named, pos) ==
    Field(IF role = "named" THEN Named("source")
          ELSE IF named THEN Named("cause") ELSE Unnamed(pos),
          ty,
          Attrs(role = "from", FALSE, role = "source", FALSE))

BacktraceField(ty, marked, named, pos) ==
    Field(IF named THEN Named("bt") ELSE Unnamed(pos), ty, Attrs(FALSE, FALSE, FALSE, marked))

FieldShapes ==
    {<<>>}
    \cup {<<ErrorField(ty, role, named, 0)>> :
              ty \in ErrorTypes, role \in ErrorRoles, named \in BOOLEAN}
    \cup {<<BacktraceField(ty, marked, named, 0)>> :
              ty \in BacktraceFieldTypes, marked \in BOOLEAN, named \in BOOLEAN}
    \cup {<<ErrorField(ty, role, named, 0), BacktraceField(bty, marked, named, 1)>> :
              ty \in ErrorTypes, role \in ErrorRoles, named \in BOOLEAN,
              bty \in BacktraceFieldTypes, marked \in BOOLEAN}
    \cup {<<BacktraceField(bty, marked, named, 0), ErrorField(ty, role, named, 1)>> :
              ty \in ErrorTypes, role \in ErrorRoles, named \in BOOLEAN,
              bty \in BacktraceFieldTypes, marked \in BOOLEAN}

NamesAgree(fields) ==
    \A i \in 1..Len(fields) : fields[i].member.kind = fields[1].member.kind

\* Input::validate (expand.rs 9) and rustc on the expansion: a transparent
\* struct or variant has exactly one field, and it is an error; a From impl
\* initialises every field, so there is none besides the from field and the
\* backtrace field
Validated(transparent, fields) ==
    /\ NamesAgree(fields)
    /\ transparent =>
          Len(fields) = 1 /\ fields[1].ty \in {TyIoError, TyBox(TyIoError)}
    /\ from_field(fields) # 0 =>
          \A i \in 1..Len(fields) : i \in {from_field(fields), backtrace_field(fields)}

Structs ==
    {Struct("S", transparent, display, fields) :
         transparent \in BOOLEAN, display \in BOOLEAN,
         fields \in {fs \in FieldShapes : NamesAgree(fs)}}

ScenarioIo == Variant("Io", FALSE, TRUE, <<Field(Unnamed(0), TyIoError, Attrs(TRUE, FALSE, FALSE, FALSE))>>)

ScenarioCustom ==
    Variant("Custom", FALSE, TRUE,
            <<Field(Named("cause"), TyIoError, Attrs(FALSE, FALSE, TRUE, FALSE)),
              Field(Named("bt"), TyBacktrace, Attrs(FALSE, FALSE, FALSE, TRUE))>>)

ScenarioE == Enum("E", FALSE, <<ScenarioIo, ScenarioCustom>>)

OtherVariants == {ScenarioCustom, Variant("Plain", FALSE, FALSE, <<>>)}

Variants ==
    {Variant("V", transparent, display, fields) :
         transparent \in BOOLEAN, display \in BOOLEAN,
         fields \in {fs \in FieldShapes : Len(fs) > 0 /\ NamesAgree(fs)}}

Enums ==
    {ScenarioE}
    \cup {Enum("E", FALSE, <<v>>) : v \in Variants}
    \cup {Enum("E", FALSE, <<v, o>>) : v \in Variants, o \in OtherVariants}
    \cup {Enum("E", FALSE, <<o, v>>) : v \in Variants, o \in OtherVariants}

ValidatedDecl(decl) ==
    IF decl.kind = "Struct" THEN Validated(decl.transparent, decl.fields)
    ELSE /\ \A i \in 1..Len(decl.variants) :
               Validated(decl.variants[i].transparent, decl.variants[i].fields)
         /\ \A i \in 1..Len(decl.variants) :
               Len(decl.variants[i].fields) = 0 => ~has_display(decl)

Declarations == {decl \in Structs \cup Enums : ValidatedDecl(decl)}

NoCall == [op |-> "idle", made |-> "", arg |-> NoneVal]

Init ==
    /\ \E decl \in Declarations : input = <<decl>>
    /\ roles = NoRoles
    /\ output = <<>>
    /\ self = Idle
    /\ call = NoCall
    /\ ret = Idle
    /\ captures = 0

\* derive runs on the declaration
Derive ==
    /\ Len(output) < Len(input)
    /\ output' = Append(output, derive(input[Len(output) + 1]))
    /\ UNCHANGED <<input, roles, self, call, ret, captures>>

\* the program builds a value of the type itself
New ==
    /\ Len(output) = 1
    /\ call.op = "idle"
    /\ \E v \in ValuesOf(input[1]) :
           /\ self' = v
           /\ call' = [op |-> "made", made |-> "new", arg |-> NoneVal]
    /\ UNCHANGED <<input, roles, output, ret, captures>>

\* the program converts a value with a generated From impl
From ==
    /\ Len(output) = 1
    /\ call.op = "idle"
    /\ \E item \in PlainFroms(output[1]) :
           \E source \in ValuesOfType(item.from_ty) :
               /\ self' = call_from(item, source, captures)
               /\ call' = [op |-> "made", made |-> "from", arg |-> source]
               /\ captures' = IF item.init.capture = "none" THEN captures ELSE captures + 1
    /\ UNCHANGED <<input, roles, output, ret>>

Source ==
    /\ call.op = "made"
    /\ ret' = call_source(output[1], self)
    /\ call' = [call EXCEPT !.op = "source"]
    /\ UNCHANGED <<input, roles, output, self, captures>>

Backtrace ==
    /\ call.op = "made"
    /\ ret' = call_backtrace(output[1], self)
    /\ call' = [call EXCEPT !.op = "backtrace"]
    /\ UNCHANGED <<input, roles, output, self, captures>>

Display ==
    /\ call.op = "made"
    /\ has_display_impl(output[1])
    /\ ret' = call_display(output[1], self)
    /\ call' = [call EXCEPT !.op = "display"]
    /\ UNCHANGED <<input, roles, output, self, captures>>

Next == Derive \/ New \/ From \/ Source \/ Backtrace \/ Display

Spec == Init /\ [][Next]_vars

(***************************************************************************)
(* The promotion code at run time.  The emitted items refer to each other  *)
(* by the names format_ident! built: the conversion of an inner enum       *)
(* exists for a target that implements the trait named at line 363, and    *)
(* `#variants::__rewrap(e)` (line 376) is the __rewrap of the type named   *)
(* like the inner variant.  Three slips of the templates that rustc        *)
(* rejects whatever the input are read as what they stand for: the impl    *)
(* of line 332 is an impl for #ty, `self` in line 346 is the argument e,   *)
(* and `rewrap_trait` in line 390 is #rewrap_trait.                        *)
(***************************************************************************)
EnumVal(ty, variant, payload) ==
    [ty |-> ty, variant |-> variant, fields |-> (Unnamed(0) :> payload)]

Payload(e) == e.fields[Unnamed(0)]

\* the unwrap items of an expansion (expand.rs 331-349)
UnwrapItems(out) ==
    {out.from_impls[i] : i \in {j \in 1..Len(out.from_impls) : out.from_impls[j].kind = "unwrap"}}

\* expand.rs 372: the targets T with T: #from_trait, by the impl of 332-336
ImplementsFrom(out, from_trait) ==
    \E item \in UnwrapItems(out) : item.from_trait = from_trait

\* expand.rs 333-335: T::__other(e)
call_other(out, from_trait, e) ==
    LET item == CHOOSE it \in UnwrapItems(out) : it.from_trait = from_trait
    IN  EnumVal(out.ty, item.variant, e)

\* expand.rs 338-348 and 390-394: the impl of rewrap_trait<arg_ty> for
\* self_ty that specialization selects.  An impl of 338-342 builds the
\* variant, the impl of 344-348 returns its argument, the default of
\* 390-394 fails with it.
RECURSIVE FirstRewrap(_, _, _)
FirstRewrap(rewraps, arg_ty, i) ==
    IF i > Len(rewraps) THEN 0
    ELSE IF rewraps[i].ty = arg_ty THEN i
    ELSE FirstRewrap(rewraps, arg_ty, i + 1)

call_rewrap(outs, rewrap_trait, self_ty, arg_ty, e) ==
    LET impls == {<<k, item>> \in {<<k, item>> : k \in 1..Len(outs),
                                    item \in UNION {UnwrapItems(outs[j]) : j \in 1..Len(outs)}} :
                      /\ item \in UnwrapItems(outs[k])
                      /\ outs[k].ty = self_ty
                      /\ item.rewrap_trait = rewrap_trait
                      /\ (FirstRewrap(item.rewraps, arg_ty, 1) # 0 \/ arg_ty = item.identity)}
    IN  IF impls = {} THEN [ok |-> FALSE, value |-> e]
        ELSE LET impl == CHOOSE im \in impls : TRUE
                 ri == FirstRewrap(impl[2].rewraps, arg_ty, 1)
             IN  IF ri # 0
                 THEN [ok |-> TRUE, value |-> EnumVal(self_ty, impl[2].rewraps[ri].variant, e)]
                 ELSE [ok |-> TRUE, value |-> e]

\* expand.rs 378 with the first variant in place of the matched one
retag_first(ty, variants, arm, e) == EnumVal(ty, variants[1], e)

\* expand.rs 378: Err(e) => #ty::#variants(e)
retag(ty, variants, arm, e) == EnumVal(ty, variants[arm], e)

(***************************************************************************)
(* The promotion specification: an inner enum and an outer enum with a     *)
(* variant holding the inner one, both derived, and a value of the inner   *)
(* enum converted into the outer enum step by step.                        *)
(***************************************************************************)
TyX == TyNamed("X")

TyY == TyNamed("Y")

TyZ == TyNamed("Z")

Tuple1(ident, ty, attrs) == Variant(ident, FALSE, TRUE, <<Field(Unnamed(0), ty, attrs)>>)

InnerEnums ==
    {Enum("Inner", unwrap, <<a, Tuple1("C", TyZ, NoAttrs)>>) :
         unwrap \in BOOLEAN,
         a \in {Tuple1("A", TyX, NoAttrs), Tuple1("Outer", TyX, NoAttrs),
                Tuple1("Outer", TyNamed("Outer"), NoAttrs)}}

OuterEnums ==
    {Enum("Outer", unwrap, <<Tuple1("A", TyX, NoAttrs), b, Tuple1(promo, ty, attrs)>>) :
         unwrap \in BOOLEAN,
         b \in {Tuple1("B", TyY, NoAttrs), Tuple1("B", TyBox(TyY), Attrs(TRUE, FALSE, FALSE, FALSE)),
                Variant("B", FALSE, TRUE, <<>>)},
         promo \in {"Promo", "Inner"},
         ty \in {TyNamed("Inner"), TyBox(TyNamed("Inner"))},
         attrs \in {NoAttrs, Attrs(FALSE, TRUE, FALSE, FALSE)}}

PayloadsOf(ty) == {Raw("error", id, 0, 0) : id \in 1..MaxErr}

InnerValues(decl) ==
    UNION {{EnumVal(decl.ident, decl.variants[i].ident, x) :
                x \in PayloadsOf(decl.variants[i].fields[1].ty)} :
           i \in 1..Len(decl.variants)}

NoFrame == [op |-> "idle", pc |-> "", arm |-> 0, e |-> Idle, via |-> "",
            other_calls |-> 0, other_arg |-> Idle]

InitPromo ==
    /\ \E inner \in InnerEnums, outer \in OuterEnums : input = <<inner, outer>>
    /\ roles = NoRoles
    /\ output = <<>>
    /\ self = Idle
    /\ call = NoFrame
    /\ ret = Idle
    /\ captures = 0

Derived == Len(output) = Len(input)

\* expand.rs 372: the conversion of the inner enum exists for the outer one
Convertible ==
    /\ output[1].unwrap.present
    /\ ImplementsFrom(output[2], output[1].unwrap.from_trait)

\* `let e: Outer = e.into()` where the build finds no From<Inner> for Outer
IntoRejected ==
    /\ Derived
    /\ call.op = "idle"
    /\ ~Convertible
    /\ \E v \in InnerValues(input[1]) :
           /\ self' = v
           /\ call' = [NoFrame EXCEPT !.op = "rejected"]
    /\ UNCHANGED <<input, roles, output, ret, captures>>

\* expand.rs 373: fn from(e: #ty) -> T is entered
Into ==
    /\ Derived
    /\ call.op = "idle"
    /\ Convertible
    /\ \E v \in InnerValues(input[1]) :
           /\ self' = v
           /\ call' = [NoFrame EXCEPT !.op = "into", !.pc = "match", !.arm = 1, !.e = v]
    /\ UNCHANGED <<input, roles, output, ret, captures>>

\* expand.rs 376: the pattern of the arm does not match
ArmSkip ==
    /\ call.pc = "match"
    /\ output[1].unwrap.variants[call.arm] # call.e.variant
    /\ call' = [call EXCEPT !.arm = call.arm + 1]
    /\ UNCHANGED <<input, roles, output, self, ret, captures>>

Rewrapped ==
    call_rewrap(output, output[1].unwrap.rewrap_trait, output[1].unwrap.variants[call.arm],
                input[1].variants[call.arm].fields[1].ty, Payload(call.e))

\* expand.rs 376-377: the arm matches and __rewrap returns Ok(e) => return e
RewrapOk ==
    /\ call.pc = "match"
    /\ output[1].unwrap.variants[call.arm] = call.e.variant
    /\ Rewrapped.ok
    /\ ret' = Rewrapped.value
    /\ call' = [call EXCEPT !.pc = "done", !.via = "rewrap"]
    /\ UNCHANGED <<input, roles, output, self, captures>>

\* expand.rs 376, 378: the arm matches and __rewrap returns Err(e)
RewrapErr ==
    /\ call.pc = "match"
    /\ output[1].unwrap.variants[call.arm] = call.e.variant
    /\ ~Rewrapped.ok
    /\ call' = [call EXCEPT !.pc = "other",
                            !.e = retag(output[1].ty, output[1].unwrap.variants, call.arm,
                                        Rewrapped.value)]
    /\ UNCHANGED <<input, roles, output, self, ret, captures>>

\* expand.rs 382: T::__other(e)
Other ==
    /\ call.pc = "other"
    /\ ret' = call_other(output[2], output[1].unwrap.from_trait, call.e)
    /\ call' = [call EXCEPT !.pc = "done", !.via = "other",
                            !.other_calls = call.other_calls + 1, !.other_arg = call.e]
    /\ UNCHANGED <<input, roles, output, self, captures>>

NextPromo == Derive \/ IntoRejected \/ Into \/ ArmSkip \/ RewrapOk \/ RewrapErr \/ Other

SpecPromo == InitPromo /\ [][NextPromo]_vars

(***************************************************************************)
(* Helpers of the properties.                                              *)
(***************************************************************************)
Lowest(S) == CHOOSE i \in S : \A j \in S : i <= j

LowestOrNone(S) == IF S = {} THEN 0 ELSE Lowest(S)

MarkedSource(fields) == {i \in 1..Len(fields) : fields[i].attrs.from \/ fields[i].attrs.source}

NamedSource(fields) == {i \in 1..Len(fields) : fields[i].member = Named("source")}

MarkedBacktrace(fields) == {i \in 1..Len(fields) : fields[i].attrs.backtrace}

BacktraceTypes == {TyBacktrace, TyStdBacktrace}

TypedBacktrace(fields) == {i \in 1..Len(fields) : fields[i].ty \in BacktraceTypes}

(***************************************************************************)
(* C7: source_field returns the lowest-index field marked from or source   *)
(* if there is one (so a from field is never passed over for a later       *)
(* field), otherwise the lowest-index field named `source`, otherwise      *)
(* none.                                                                   *)
(***************************************************************************)
C7_SourceResolution ==
    roles.resolved =>
        /\ roles.source = IF MarkedSource(input[1].fields) # {} THEN Lowest(MarkedSource(input[1].fields))
                          ELSE LowestOrNone(NamedSource(input[1].fields))
        /\ roles.from # 0 => (roles.source # 0 /\ roles.source <= roles.from)

C7_Witness ==
    /\ roles.resolved
    /\ Len(input[1].fields) = 2
    /\ input[1].fields[1].member = Named("source") /\ input[1].fields[1].attrs = NoAttrs
    /\ input[1].fields[2].attrs.source
    /\ roles.source = 2

(***************************************************************************)
(* C9: backtrace_field returns the lowest-index field marked backtrace if  *)
(* there is one, otherwise the lowest-index field whose type is the        *)
(* backtrace type itself (Option<Backtrace> is not), otherwise none.       *)
(***************************************************************************)
C9_BacktraceResolution ==
    roles.resolved =>
        roles.backtrace = IF MarkedBacktrace(input[1].fields) # {} THEN Lowest(MarkedBacktrace(input[1].fields))
                          ELSE LowestOrNone(TypedBacktrace(input[1].fields))

C9_Witness ==
    /\ roles.resolved
    /\ Len(input[1].fields) = 2
    /\ input[1].fields[1].ty = TyBacktrace /\ ~input[1].fields[1].attrs.backtrace
    /\ input[1].fields[2].ty = TyOption(TyBacktrace) /\ input[1].fields[2].attrs.backtrace
    /\ roles.backtrace = 2

(***************************************************************************)
(* What the properties expect, stated on the declaration and the value.    *)
(***************************************************************************)
\* the field list of the value's struct or variant
FieldsOf(decl, v) ==
    IF decl.kind = "Struct" THEN decl.fields
    ELSE decl.variants[CHOOSE i \in 1..Len(decl.variants) : decl.variants[i].ident = v.variant].fields

TransparentOf(decl, v) ==
    IF decl.kind = "Struct" THEN decl.transparent
    ELSE decl.variants[CHOOSE i \in 1..Len(decl.variants) : decl.variants[i].ident = v.variant].transparent

Nullable(ty) == ty.segments = <<"Option">>

\* an optional reference to what a field holds: absent iff the field is
\* nullable and holds no value
AsOption(v) == IF v.opt = "raw" THEN [v EXCEPT !.opt = "some"] ELSE v

\* the backtrace the error held by a field reports itself
OwnBacktrace(v) ==
    IF v.opt = "none" \/ v.bt = 0 THEN NoneVal
    ELSE [NoneVal EXCEPT !.opt = "some", !.tag = "own_backtrace", !.id = v.bt]

\* the source the error held by a field reports itself
OwnSource(v) ==
    IF v.cause = 0 THEN NoneVal
    ELSE [NoneVal EXCEPT !.opt = "some", !.tag = "error", !.id = v.cause]

SourceIx(fields) == IF MarkedSource(fields) # {} THEN Lowest(MarkedSource(fields))
                    ELSE LowestOrNone(NamedSource(fields))

BacktraceIx(fields) == IF MarkedBacktrace(fields) # {} THEN Lowest(MarkedBacktrace(fields))
                       ELSE LowestOrNone(TypedBacktrace(fields))

FromIx(fields) == LowestOrNone({i \in 1..Len(fields) : fields[i].attrs.from})

ValueAt(v, fields, i) == v.fields[fields[i].member]

PreferSource(v, fields) ==
    IF OwnBacktrace(ValueAt(v, fields, SourceIx(fields))) # NoneVal
    THEN OwnBacktrace(ValueAt(v, fields, SourceIx(fields)))
    ELSE AsOption(ValueAt(v, fields, BacktraceIx(fields)))

(***************************************************************************)
(* C3: the backtrace accessor of a struct with a source field s and a      *)
(* backtrace field b returns s's own backtrace when s is present and has   *)
(* one, and the local b otherwise (absent when b is nullable and empty);   *)
(* with a backtrace field and no source it returns the local field, and    *)
(* without a backtrace field no accessor is emitted.                       *)
(***************************************************************************)
C3_StructBacktrace ==
    (Len(output) = 1 /\ input[1].kind = "Struct") =>
        LET fields == input[1].fields
        IN  /\ (BacktraceIx(fields) = 0) <=> (output[1].backtrace_method.kind = "none")
            /\ (call.op = "backtrace" /\ BacktraceIx(fields) # 0) =>
                  ret = IF SourceIx(fields) # 0 THEN PreferSource(self, fields)
                        ELSE AsOption(ValueAt(self, fields, BacktraceIx(fields)))

C3_Witness ==
    /\ call.op = "backtrace"
    /\ input[1].kind = "Struct"
    /\ SourceIx(input[1].fields) # 0 /\ BacktraceIx(input[1].fields) # 0
    /\ Nullable(input[1].fields[SourceIx(input[1].fields)].ty)
    /\ Nullable(input[1].fields[BacktraceIx(input[1].fields)].ty)
    /\ ValueAt(self, input[1].fields, BacktraceIx(input[1].fields)).opt = "some"
    /\ ret.tag = "own_backtrace"

(***************************************************************************)
(* C4 as claimed: every variant with a backtrace field and a source field  *)
(* prefers the source's own backtrace, however the backtrace field was     *)
(* selected.                                                               *)
(***************************************************************************)
C4_Original ==
    (call.op = "backtrace" /\ input[1].kind = "Enum") =>
        LET fields == FieldsOf(input[1], self)
        IN  ret = IF BacktraceIx(fields) = 0 THEN NoneVal
                  ELSE IF SourceIx(fields) # 0 THEN PreferSource(self, fields)
                  ELSE AsOption(ValueAt(self, fields, BacktraceIx(fields)))

(***************************************************************************)
(* C4 as amended: a variant with a source field and a backtrace field      *)
(* selected by its type prefers the source's own backtrace and falls back  *)
(* to the local field; a variant whose backtrace field is explicitly       *)
(* marked, or that has no source, returns the local field; a variant       *)
(* without a backtrace field returns absent.                               *)
(***************************************************************************)
C4_EnumBacktrace ==
    (call.op = "backtrace" /\ input[1].kind = "Enum") =>
        LET fields == FieldsOf(input[1], self)
        IN  ret = IF BacktraceIx(fields) = 0 THEN NoneVal
                  ELSE IF SourceIx(fields) # 0 /\ ~fields[BacktraceIx(fields)].attrs.backtrace
                       THEN PreferSource(self, fields)
                  ELSE AsOption(ValueAt(self, fields, BacktraceIx(fields)))

C4_Witness ==
    /\ call.op = "backtrace"
    /\ input[1].kind = "Enum"
    /\ LET fields == FieldsOf(input[1], self)
       IN  /\ SourceIx(fields) # 0 /\ BacktraceIx(fields) # 0
           /\ fields[BacktraceIx(fields)].attrs.backtrace
           /\ OwnBacktrace(ValueAt(self, fields, SourceIx(fields))) # NoneVal
           /\ ret.tag = "field_backtrace"

\* the backtrace field right after a conversion: the capture the
\* conversion made, in Some(..) when the field is nullable
FreshBacktrace(v, fields) ==
    BacktraceIx(fields) # 0 =>
        /\ captures = 1
        /\ ValueAt(v, fields, BacktraceIx(fields)) =
              [NoneVal EXCEPT !.opt = IF Nullable(fields[BacktraceIx(fields)].ty)
                                      THEN "some" ELSE "raw",
                              !.tag = "captured", !.id = captures]

Converted == call.made = "from"

(***************************************************************************)
(* C5 as claimed: after the generated conversion of t, the from field      *)
(* equals t, the source accessor returns t, and a backtrace field holds a  *)
(* fresh capture.                                                          *)
(***************************************************************************)
C5_Original ==
    Converted =>
        LET fields == FieldsOf(input[1], self)
        IN  /\ ValueAt(self, fields, FromIx(fields)) = call.arg
            /\ FreshBacktrace(self, fields)
            /\ call.op = "source" => ret = AsOption(call.arg)

\* a variant whose sole field is a Box<T>
BoxedVariant(decl, fields) ==
    decl.kind = "Enum" /\ Len(fields) = 1 /\ fields[1].ty.segments = <<"Box">>

InBox(v) == [v EXCEPT !.box = TRUE]

(***************************************************************************)
(* C5 as amended: after the generated conversion of t, the from field      *)
(* equals t (Box::new(t) for a boxed variant, whose conversion takes the   *)
(* boxed type), a backtrace field holds a fresh capture (in Some when      *)
(* nullable), and the source accessor returns what the from field holds,   *)
(* except for a transparent struct or variant, where it returns the own    *)
(* source of t.                                                            *)
(***************************************************************************)
C5_RoundTrip ==
    Converted =>
        LET fields == FieldsOf(input[1], self)
            held == IF BoxedVariant(input[1], fields) THEN InBox(call.arg) ELSE call.arg
        IN  /\ ValueAt(self, fields, FromIx(fields)) = held
            /\ FreshBacktrace(self, fields)
            /\ call.op = "source" =>
                  ret = IF TransparentOf(input[1], self) THEN OwnSource(call.arg)
                        ELSE AsOption(held)

C5_Witness ==
    /\ Converted
    /\ call.op = "source"
    /\ ~TransparentOf(input[1], self)
    /\ BacktraceIx(FieldsOf(input[1], self)) # 0
    /\ Nullable(FieldsOf(input[1], self)[BacktraceIx(FieldsOf(input[1], self))].ty)
    /\ ret = AsOption(call.arg)
    /\ ret.opt = "some"

(***************************************************************************)
(* C6 as claimed: E::from(io_error) is E::Io(io_error) and the backtrace   *)
(* accessor returns a freshly captured backtrace for it;                   *)
(* E::Custom{cause, bt}.source() is Some(&cause).                          *)
(***************************************************************************)
C6_Original ==
    input[1] = ScenarioE =>
        /\ Converted => self = [variant |-> "Io", fields |-> (Unnamed(0) :> call.arg)]
        /\ (Converted /\ call.op = "backtrace") => (ret.opt = "some" /\ ret.tag = "captured")
        /\ (call.op = "source" /\ self.variant = "Custom") =>
              ret = AsOption(self.fields[Named("cause")])

(***************************************************************************)
(* C6 as amended: E::from(io_error) is E::Io(io_error); Io has no          *)
(* backtrace field, so the conversion captures nothing and the backtrace   *)
(* accessor returns absent for it; E::Custom{cause, bt}.source() is        *)
(* Some(&cause).                                                           *)
(***************************************************************************)
C6_Scenario ==
    input[1] = ScenarioE =>
        /\ Converted =>
              /\ self = [variant |-> "Io", fields |-> (Unnamed(0) :> call.arg)]
              /\ captures = 0
        /\ (Converted /\ call.op = "backtrace") => ret = NoneVal
        /\ (call.op = "source" /\ self.variant = "Custom") =>
              ret = AsOption(self.fields[Named("cause")])

C6_Witness ==
    /\ input[1] = ScenarioE
    /\ Converted
    /\ call.op = "backtrace"
    /\ self.variant = "Io"
    /\ ret = NoneVal

(***************************************************************************)
(* C8: for a transparent struct the source accessor returns the sole       *)
(* field's own source and the display formatter the sole field's own       *)
(* display, whatever source field or template the struct has; otherwise    *)
(* the source accessor returns the source field (absent when it is         *)
(* nullable and empty) and is not emitted without one, and display is the  *)
(* template if there is one and is not emitted otherwise.                  *)
(***************************************************************************)
C8_StructTransparent ==
    (Len(output) = 1 /\ input[1].kind = "Struct") =>
        LET fields == input[1].fields
            out == output[1]
        IN  IF input[1].transparent
            THEN /\ call.op = "source" => ret = OwnSource(ValueAt(self, fields, 1))
                 /\ call.op = "display" =>
                       ret = [by |-> "field", shown |-> <<ValueAt(self, fields, 1)>>]
                 /\ out.source_method.kind # "none" /\ out.display_impl.kind # "none"
            ELSE /\ (SourceIx(fields) = 0) <=> (out.source_method.kind = "none")
                 /\ (call.op = "source" /\ SourceIx(fields) # 0) =>
                       ret = AsOption(ValueAt(self, fields, SourceIx(fields)))
                 /\ (~input[1].display) <=> (out.display_impl.kind = "none")
                 /\ call.op = "display" =>
                       ret = [by |-> "template",
                              shown |-> [i \in 1..Len(fields) |-> ValueAt(self, fields, i)]]

C8_Witness ==
    /\ input[1].kind = "Struct"
    /\ input[1].transparent /\ input[1].display
    /\ input[1].fields[1].attrs.source
    /\ call.op = "source"
    /\ self.fields[input[1].fields[1].member].cause # 0
    /\ ret = OwnSource(self.fields[input[1].fields[1].member])

(***************************************************************************)
(* Promotion: what the properties expect.                                  *)
(***************************************************************************)
\* the outer variant marked from_unwrap
PromoIx(decl) ==
    LowestOrNone({i \in 1..Len(decl.variants) :
                      \E j \in 1..Len(decl.variants[i].fields) :
                          decl.variants[i].fields[j].attrs.from_unwrap})

VariantIx(decl, v) == Lowest({i \in 1..Len(decl.variants) : decl.variants[i].ident = v.variant})

\* the outer variants, other than the promotion one, whose payload type is ty
Siblings(decl, ty) ==
    {i \in 1..Len(decl.variants) :
         /\ i # PromoIx(decl)
         /\ Len(decl.variants[i].fields) = 1
         /\ decl.variants[i].fields[1].ty = ty}

Promoted(inner, outer, v) ==
    LET ty == inner.variants[VariantIx(inner, v)].fields[1].ty
    IN  IF Siblings(outer, ty) # {}
        THEN EnumVal(outer.ident, outer.variants[Lowest(Siblings(outer, ty))].ident, Payload(v))
        ELSE EnumVal(outer.ident, outer.variants[PromoIx(outer)].ident, v)

\* the chain of the claim: a promotable inner enum and an outer enum with a
\* from_unwrap variant holding the inner enum
PromotionChain ==
    /\ Len(input) = 2
    /\ input[1].unwrap
    /\ PromoIx(input[2]) # 0
    /\ input[2].variants[PromoIx(input[2])].fields[1].ty = TyNamed(input[1].ident)

ConversionEnded == call.op = "rejected" \/ call.pc = "done"

(***************************************************************************)
(* C1 as claimed: converting a value of the inner enum into the outer one  *)
(* always succeeds, gives the sibling outer variant with the same payload  *)
(* when the payload type of the inner variant is that of an outer variant, *)
(* and the from_unwrap variant wrapping the inner value otherwise.         *)
(***************************************************************************)
C1_Original ==
    (PromotionChain /\ ConversionEnded) =>
        /\ call.op # "rejected"
        /\ ret = Promoted(input[1], input[2], self)

Boxed(v) == [boxed |-> v]

SyntacticBox(ty) == ty.kind = "Path" /\ ty.segments = <<"Box">> /\ Len(ty.arguments) = 1

(***************************************************************************)
(* C10 as claimed: a variant is boxed iff it has exactly one field of type *)
(* Box<T>; the conversion generated for a boxed variant, a plain From or   *)
(* the __other hook of a from_unwrap field, takes a T and puts             *)
(* Box::new of it into the field.                                          *)
(***************************************************************************)
C10_Original ==
    /\ \A k \in 1..Len(output) : \A i \in 1..Len(input[k].variants) :
          LET variant == input[k].variants[i]
              boxed == Len(variant.fields) = 1 /\ SyntacticBox(variant.fields[1].ty)
          IN  /\ boxed <=> (is_boxed(variant.fields) # NoType)
              /\ (boxed /\ (variant.fields[1].attrs.from \/ variant.fields[1].attrs.from_unwrap)) =>
                    \E j \in 1..Len(output[k].from_impls) :
                        LET item == output[k].from_impls[j]
                        IN  /\ item.variant = variant.ident
                            /\ item.from_ty = variant.fields[1].ty.arguments[1].ty
                            /\ item.kind = "from" => item.init.boxed
    /\ (call.pc = "done" /\ call.via = "other"
          /\ SyntacticBox(input[2].variants[PromoIx(input[2])].fields[1].ty)) =>
             Payload(ret) = Boxed(call.other_arg)

\* a variant with a field marked from_unwrap
HasPromotionSource(variant) ==
    \E j \in 1..Len(variant.fields) : variant.fields[j].attrs.from_unwrap

\* the enum has a variant with a from_unwrap field
HasPromotionVariant(decl) ==
    \E i \in 1..Len(decl.variants) : HasPromotionSource(decl.variants[i])

(***************************************************************************)
(* C11 as claimed: promotion code (the generic conversion of the enum, the *)
(* rewrap cases and the __other hook) is emitted for an enum exactly when  *)
(* the enum is marked unwrap and one of its variants has a from_unwrap     *)
(* field; with only one of the two nothing of it is emitted.               *)
(***************************************************************************)
C11_Original ==
    \A k \in 1..Len(output) :
        LET active == input[k].unwrap /\ HasPromotionVariant(input[k])
        IN  /\ output[k].unwrap.present <=> active
            /\ (UnwrapItems(output[k]) # {}) <=> active

(***************************************************************************)
(* C11: the two parts of the promotion code are emitted independently.     *)
(* The traits and the generic conversion of an enum are emitted exactly    *)
(* when the enum is marked unwrap, whatever its variants; the rewrap cases *)
(* and the __other hook are emitted once for each variant that has a       *)
(* from_unwrap field, whether or not the enum is marked unwrap, and such a *)
(* variant gets no plain From.                                             *)
(***************************************************************************)
C11_Activation ==
    \A k \in 1..Len(output) :
        /\ output[k].unwrap.present <=> input[k].unwrap
        /\ \A i \in 1..Len(input[k].variants) :
              LET variant == input[k].variants[i]
                  items == {j \in 1..Len(output[k].from_impls) :
                                output[k].from_impls[j].variant = variant.ident}
              IN  IF HasPromotionSource(variant)
                  THEN /\ Cardinality(items) = 1
                       /\ \A j \in items : output[k].from_impls[j].kind = "unwrap"
                  ELSE \A j \in items : output[k].from_impls[j].kind = "from"

C11_Witness ==
    /\ Derived
    /\ input[1].unwrap /\ ~HasPromotionVariant(input[1])
    /\ output[1].unwrap.present /\ UnwrapItems(output[1]) = {}
    /\ ~input[2].unwrap /\ HasPromotionVariant(input[2])
    /\ ~output[2].unwrap.present /\ UnwrapItems(output[2]) # {}

\* the payload types of the variants of an enum
PayloadTypes(decl) ==
    {decl.variants[i].fields[1].ty :
         i \in {j \in 1..Len(decl.variants) : Len(decl.variants[j].fields) = 1}}

\* the item emitted for the from_unwrap variant of an expansion
PromoItem(decl, out) ==
    CHOOSE item \in UnwrapItems(out) : item.variant = decl.variants[PromoIx(decl)].ident

\* the variants other than the from_unwrap one that have exactly one field
CaseVariants(decl) ==
    {i \in 1..Len(decl.variants) : i # PromoIx(decl) /\ Len(decl.variants[i].fields) = 1}

\* the n-th of a set of positions, in declaration order
Nth(S, n) == CHOOSE i \in S : Cardinality({j \in S : j <= i}) = n

\* the number of rewrap cases that build the variant
CasesOf(item, ident) ==
    Cardinality({n \in 1..Len(item.rewraps) : item.rewraps[n].variant = ident})

\* the payload type of the variant of the inner value being converted
ArgType == input[1].variants[VariantIx(input[1], self)].fields[1].ty

====
